---- MODULE Spec2Model ----
(***************************************************************************)
(* Wallet synchronisation driver of cardano-cli (src/wallet/utils.rs).     *)
(*                                                                         *)
(* update_wallet_state_with_utxos walks the transactions of the blockchain *)
(* from the state's cursor to the tip, feeds them to the wallet state and  *)
(* appends the emitted records to the wallet's log; the log is locked anew *)
(* for every batch of appends.  update_wallet_state_with_logs rebuilds a   *)
(* state from the log, display_wallet_state_logs prints it, and the two    *)
(* load_*_lookup_structure functions ask for the password and build the    *)
(* address lookup.  Several wallet commands (processes) may run on the     *)
(* same wallet.                                                            *)
(*                                                                         *)
(* The wallet state (state::State), the log store (module log) and wallet   *)
(* lock (Wallet::log) live outside utils.rs; they are modelled from their  *)
(* specification (sections 4.2, 4.4 and 6 of the design document).         *)
(***************************************************************************)
EXTENDS Integers, Sequences, FiniteSets, TLC

\* ------------------------------------------------------------------ bounds
MaxTx == 2          \* transactions of the blockchain
MaxOuts == 2        \* outputs of one transaction
MaxEpoch == 2       \* epochs of the blockchain: 0..MaxEpoch

\* ------------------------------------------------------------ value types
Procs == {"p1", "p2"}           \* wallet commands running on the one wallet
Addr == {"A", "B"}              \* addresses seen on the chain
OwnedAddr == {"A"}              \* the addresses the lookup structure owns

None == [none |-> TRUE]         \* Option::None

\* BlockDate::Genesis(e) is slot 0 of epoch e; a block with transactions
\* has a slot >= 1 (here: its block number).
Genesis(e) == [epoch |-> e, slot |-> 0]
Normal(e, s) == [epoch |-> e, slot |-> s]

\* BlockDate ordering (epoch first, then slot)
DateLeq(a, b) == a.epoch < b.epoch \/ (a.epoch = b.epoch /\ a.slot <= b.slot)

\* value credited by the k-th output (1-based) of a transaction
Coin(k) == IF k = 1 THEN 100 ELSE 30

\* StatePtr { latest_known_hash, latest_addr }; a block's hash is its number,
\* hash 0 is the genesis hash the wallet is created with.
StatePtr(h, d) == [latest_known_hash |-> h, latest_addr |-> d]
GenesisPtr == StatePtr(0, None)

latest_block_date(ptr) ==
    IF ptr.latest_addr = None THEN Genesis(0) ELSE ptr.latest_addr

\* ---------------------------------------------------------- the blockchain
\* A chain is the sequence of its transactions in blockchain order; the id of
\* a transaction is its position.  A transaction: the block (number, epoch)
\* that holds it, the outputs it spends (TxIn = id and index of an earlier
\* output) and the addresses and values it credits.
TxIn(id, index) == [id |-> id, index |-> index]

OutSeqs ==
    UNION { [1..n -> [address : Addr, value : {100, 30}]] : n \in 1..MaxOuts }

WellValued(outs) == \A k \in DOMAIN outs : outs[k].value = Coin(k)

\* outputs created by the transactions of c
OutputsOf(c) ==
    UNION { { TxIn(i, k - 1) : k \in DOMAIN c[i].outs } : i \in DOMAIN c }

SpentIn(c) == UNION { c[i].ins : i \in DOMAIN c }

\* the transactions that may follow chain c: same block or the next block, in
\* an epoch that is not earlier; no output is spent twice.
NextTxs(c) ==
    LET n == Len(c)
        blocks == IF n = 0
                  THEN { [blk |-> 1, epoch |-> e] : e \in 0..MaxEpoch }
                  ELSE { [blk |-> c[n].blk, epoch |-> c[n].epoch] } \cup
                       { [blk |-> c[n].blk + 1, epoch |-> e] :
                             e \in c[n].epoch..MaxEpoch }
    IN { [blk |-> b.blk, epoch |-> b.epoch, ins |-> ins, outs |-> outs] :
             b \in blocks,
             ins \in SUBSET (OutputsOf(c) \ SpentIn(c)),
             outs \in { o \in OutSeqs : WellValued(o) } }

RECURSIVE ChainsOfLen(_)
ChainsOfLen(n) ==
    IF n = 0 THEN { <<>> }
    ELSE UNION { { Append(c, t) : t \in NextTxs(c) } : c \in ChainsOfLen(n - 1) }

Chains == UNION { ChainsOfLen(n) : n \in 1..MaxTx }

\* the StatePtr the transaction iterator hands out with transaction t
PtrOf(t) == StatePtr(t.blk, Normal(t.epoch, t.blk))

\* the inputs of a transaction in the order of its input vector (ascending)
TxInLess(a, b) == a.id < b.id \/ (a.id = b.id /\ a.index < b.index)

RECURSIVE InputsOf(_)
InputsOf(ins) ==
    IF ins = {} THEN <<>>
    ELSE LET m == CHOOSE a \in ins : \A b \in ins \ {a} : TxInLess(a, b)
         IN <<m>> \o InputsOf(ins \ {m})

\* ------------------------------------------------- log records and UTxOs
UTxO(id, index, address, value) ==
    [transaction_id |-> id, index_in_transaction |-> index,
     credited_address |-> address, credited_value |-> value]

Checkpoint(ptr) == [kind |-> "Checkpoint", ptr |-> ptr, utxo |-> None]
ReceivedFund(ptr, utxo) == [kind |-> "ReceivedFund", ptr |-> ptr, utxo |-> utxo]
SpentFund(ptr, utxo) == [kind |-> "SpentFund", ptr |-> ptr, utxo |-> utxo]

\* ------------------------------------------------------ wallet state
\* state::State: the cursor and the live set.  The live set is kept as the
\* set of its entries, so that the uniqueness of their identity keys is a
\* property of the operations and not of the representation.
NewState == [ptr |-> GenesisPtr, utxos |-> {}]

extract_txin(utxo) == TxIn(utxo.transaction_id, utxo.index_in_transaction)

Found(utxos, txin) == { u \in utxos : extract_txin(u) = txin }

\* address lookup: "ours" when the lookup structure owns the address
lookup(utxo) == utxo.credited_address \in OwnedAddr

\* forward_with_txins: an input that consumes a live entry removes it and
\* emits SpentFund; any other input is skipped.  An identity collision in the
\* live set is an error.  Result: the new state, the records, ok.
RECURSIVE forward_with_txins(_, _)
forward_with_txins(st, items) ==
    IF items = <<>> THEN [state |-> st, logs |-> <<>>, ok |-> TRUE]
    ELSE LET ptr == items[1][1]
             hit == Found(st.utxos, items[1][2])
         IN IF Cardinality(hit) > 1
            THEN [state |-> st, logs |-> <<>>, ok |-> FALSE]
            ELSE IF hit = {}
            THEN forward_with_txins(st, Tail(items))
            ELSE LET u == CHOOSE x \in hit : TRUE
                     r == forward_with_txins(
                              [ptr |-> ptr, utxos |-> st.utxos \ {u}],
                              Tail(items))
                 IN [state |-> r.state,
                     logs |-> <<SpentFund(ptr, u)>> \o r.logs,
                     ok |-> r.ok]

\* forward_with_utxos: an owned output is inserted into the live set and
\* emits ReceivedFund; inserting an identity that is already live is an error.
RECURSIVE forward_with_utxos(_, _)
forward_with_utxos(st, items) ==
    IF items = <<>> THEN [state |-> st, logs |-> <<>>, ok |-> TRUE]
    ELSE LET ptr == items[1][1]
             utxo == items[1][2]
         IN IF ~lookup(utxo)
            THEN forward_with_utxos(st, Tail(items))
            ELSE IF Found(st.utxos, extract_txin(utxo)) # {}
            THEN [state |-> st, logs |-> <<>>, ok |-> FALSE]
            ELSE LET r == forward_with_utxos(
                              [ptr |-> ptr, utxos |-> st.utxos \cup {utxo}],
                              Tail(items))
                 IN [state |-> r.state,
                     logs |-> <<ReceivedFund(ptr, utxo)>> \o r.logs,
                     ok |-> r.ok]

\* update_with_logs: replay of records.  Checkpoint advances the cursor only,
\* ReceivedFund inserts, SpentFund removes; a record that does not fit the
\* live set is an error.
RECURSIVE update_with_logs(_, _)
update_with_logs(st, records) ==
    IF records = <<>> THEN [state |-> st, ok |-> TRUE]
    ELSE LET r == records[1]
         IN CASE r.kind = "Checkpoint" ->
                    update_with_logs([st EXCEPT !.ptr = r.ptr], Tail(records))
              [] r.kind = "ReceivedFund" ->
                    IF Found(st.utxos, extract_txin(r.utxo)) # {}
                    THEN [state |-> st, ok |-> FALSE]
                    ELSE update_with_logs(
                             [ptr |-> r.ptr, utxos |-> st.utxos \cup {r.utxo}],
                             Tail(records))
              [] r.kind = "SpentFund" ->
                    IF Found(st.utxos, extract_txin(r.utxo)) = {}
                    THEN [state |-> st, ok |-> FALSE]
                    ELSE update_with_logs(
                             [ptr |-> r.ptr,
                              utxos |-> st.utxos \
                                        Found(st.utxos, extract_txin(r.utxo))],
                             Tail(records))

\* ------------------------------------------------------------ the driver
\* iter_to_tip(from) with TransactionIterator: the positions of the
\* transactions of the blocks after block `from`, up to the tip, in order.
iter_to_tip(c, from) == { i \in DOMAIN c : c[i].blk > from }

\* (variant of TxinItems: the inputs carry the cursor of a new state)
TxinItemsStale(ptr, tx) ==
    LET ins == InputsOf(tx.ins)
    IN [k \in DOMAIN ins |-> <<GenesisPtr, ins[k]>>]

\* the items handed to forward_with_txins: (ptr, txin) for every input
TxinItems(ptr, tx) ==
    LET ins == InputsOf(tx.ins)
    IN [k \in DOMAIN ins |-> <<ptr, ins[k]>>]

\* (variant of UtxoItems: the outputs enumerated from 1)
UtxoItemsFromOne(ptr, txid, tx) ==
    [k \in DOMAIN tx.outs |->
        <<ptr, UTxO(txid, k, tx.outs[k].address, tx.outs[k].value)>>]

\* the items handed to forward_with_utxos: the outputs enumerated from 0
UtxoItems(ptr, txid, tx) ==
    [k \in DOMAIN tx.outs |->
        <<ptr, UTxO(txid, k - 1, tx.outs[k].address, tx.outs[k].value)>>]

\* (variant of CheckpointDue: the whole block dates are compared)
CheckpointDueByDate(last, ptr) ==
    /\ ptr.latest_addr # None
    /\ last # ptr.latest_addr

\* a checkpoint is due when the block has a date in another epoch than
\* last_block_date
CheckpointDue(last, ptr) ==
    /\ ptr.latest_addr # None
    /\ last.epoch # ptr.latest_addr.epoch

VARIABLES
    chain,              \* the blockchain (fixed during a run)
    log,                \* the wallet's log: the records appended so far
    logBy,              \* for every record of log, the process that appended it
    locks,              \* the processes that hold a LogLock of the wallet
    pc,                 \* per process: where the command stands
    state,              \* per process: its state::State
    pos,                \* per process: position of the transaction at hand
    last_block_date,    \* per process: the local of the same name
    logs,               \* per process: the records still to append
    done,               \* per transaction: how often it was processed (0, 1, many)
    hist,               \* so far: a session was cut short; an earlier one
                        \* completed; a process ended while it held the lock
    bad,                \* the positions of the log whose record does not decode
    term,               \* per process: what the command wrote to the terminal
    rd,                 \* per process: records its open LogReader has yielded
    ls,                 \* per process: the address lookup structure it built
    cred                \* per process: what get_wallet_* answers to the
                        \* password typed at this launch

vars == <<chain, log, logBy, locks, pc, state, pos, last_block_date, logs,
          done, hist, bad, term, rd, ls, cred>>

\* the side of a command that the synchronisation steps leave alone
cli == <<bad, term, rd, ls, cred>>

Terminal == {"Completed", "Displayed", "LockFailed", "Exited", "Aborted",
             "Crashed"}

Init ==
    /\ chain \in Chains
    /\ log = <<>>
    /\ logBy = <<>>
    /\ locks = {}
    /\ pc = [p \in Procs |-> "Idle"]
    /\ state = [p \in Procs |-> NewState]
    /\ pos = [p \in Procs |-> 0]
    /\ last_block_date = [p \in Procs |-> Genesis(0)]
    /\ logs = [p \in Procs |-> <<>>]
    /\ done = [i \in DOMAIN chain |-> 0]
    /\ hist = [cut |-> FALSE, completed |-> FALSE, unwound |-> FALSE]
    /\ bad = {}
    /\ term = [p \in Procs |-> <<>>]
    /\ rd = [p \in Procs |-> 0]
    /\ ls = [p \in Procs |-> [lookup |-> "bip44"]]
    /\ cred = [p \in Procs |-> "Ok"]

\* Wallet::log(): the lock, or "already locked" while a holder exists; opening
\* the lock may also fail for another reason.
WalletLog == IF locks # {} THEN {"AlreadyLocked"} ELSE {"Ok", "Other"}

\* (variant of Ends: the process ends without dropping its writer or reader)
EndsHolding(p, how) ==
    /\ pc' = [pc EXCEPT ![p] = how]
    /\ state' = [state EXCEPT ![p] = NewState]
    /\ pos' = [pos EXCEPT ![p] = 0]
    /\ last_block_date' = [last_block_date EXCEPT ![p] = Genesis(0)]
    /\ logs' = [logs EXCEPT ![p] = <<>>]
    /\ rd' = [rd EXCEPT ![p] = 0]
    /\ ls' = [ls EXCEPT ![p] = None]
    /\ hist' = [hist EXCEPT !.cut = TRUE, !.unwound = @ \/ p \in locks]
    /\ UNCHANGED <<chain, cred, bad, term, log, logBy, done, locks>>

\* the process ends: exit(1), a panic, a kill.  Its locals are gone and the
\* lock it holds is released.
Ends(p, how) ==
    /\ pc' = [pc EXCEPT ![p] = how]
    /\ locks' = locks \ {p}
    /\ state' = [state EXCEPT ![p] = NewState]
    /\ pos' = [pos EXCEPT ![p] = 0]
    /\ last_block_date' = [last_block_date EXCEPT ![p] = Genesis(0)]
    /\ logs' = [logs EXCEPT ![p] = <<>>]
    /\ rd' = [rd EXCEPT ![p] = 0]
    /\ ls' = [ls EXCEPT ![p] = None]
    /\ hist' = [hist EXCEPT !.cut = TRUE, !.unwound = @ \/ p \in locks]
    /\ UNCHANGED <<chain, cred, bad, term, log, logBy, done>>

\* (variant of lock_wallet_log: "already locked" is taken for success)
lock_wallet_log_granting(p, next) ==
    \E r \in WalletLog :
        CASE r \in {"Ok", "AlreadyLocked"} ->
                /\ locks' = locks \cup {p}
                /\ pc' = [pc EXCEPT ![p] = next]
                /\ UNCHANGED <<chain, cli, log, logBy, state, pos, last_block_date,
                               logs, done, hist>>
          [] r = "Other" -> Ends(p, "Aborted")

\* (variant of lock_wallet_log: "already locked" falls into the arm of the
\* unexpected errors)
lock_wallet_log_panicking(p, next) ==
    \E r \in WalletLog :
        CASE r = "Ok" ->
                /\ locks' = locks \cup {p}
                /\ pc' = [pc EXCEPT ![p] = next]
                /\ UNCHANGED <<chain, cli, log, logBy, state, pos, last_block_date,
                               logs, done, hist>>
          [] r \in {"AlreadyLocked", "Other"} -> Ends(p, "Aborted")

\* lock_wallet_log: the lock on success; exit(1) when the log is already
\* locked; a panic on any other error.
lock_wallet_log(p, next) ==
    \E r \in WalletLog :
        CASE r = "Ok" ->
                /\ locks' = locks \cup {p}
                /\ pc' = [pc EXCEPT ![p] = next]
                /\ UNCHANGED <<chain, cli, log, logBy, state, pos, last_block_date,
                               logs, done, hist>>
          [] r = "AlreadyLocked" -> Ends(p, "LockFailed")
          [] r = "Other" -> Ends(p, "Aborted")

\* writer.append(record).unwrap(): the record is appended whole, or the
\* append fails and the process panics.
WriterAppend(p, record) ==
    /\ log' = Append(log, record)
    /\ logBy' = Append(logBy, p)

\* ---- update_wallet_state_with_logs
\* (variant of LogsLock: the lock is dropped once the reader is open)
LogsLockDropping(p) ==
    /\ pc[p] = "Idle"
    /\ \E r \in WalletLog :
         CASE r = "Ok" ->
                 /\ pc' = [pc EXCEPT ![p] = "Replay"]
                 /\ UNCHANGED <<chain, cli, log, logBy, locks, state, pos,
                                last_block_date, logs, done, hist>>
           [] r = "AlreadyLocked" -> Ends(p, "LockFailed")
           [] r = "Other" -> Ends(p, "Aborted")

LogsLock(p) ==
    /\ pc[p] = "Idle"
    /\ lock_wallet_log(p, "Replay")

\* the reader yields the next record to state.update_with_logs: a record
\* that does not decode panics in the filter_map closure, a record that does
\* not fit the state makes update_with_logs fail (unwrap)
UpdateWithLogs(p) ==
    /\ pc[p] = "Replay"
    /\ rd[p] < Len(log)
    /\ IF rd[p] + 1 \in bad
       THEN Ends(p, "Aborted")
       ELSE LET r == update_with_logs(state[p], <<log[rd[p] + 1]>>)
            IN IF r.ok
               THEN /\ state' = [state EXCEPT ![p] = r.state]
                    /\ rd' = [rd EXCEPT ![p] = rd[p] + 1]
                    /\ UNCHANGED <<chain, cred, bad, term, ls, log, logBy, locks,
                                   pc, pos, last_block_date, logs, done, hist>>
               ELSE Ends(p, "Aborted")

\* the reader is exhausted and goes out of scope: the lock is released
UpdateDone(p) ==
    /\ pc[p] = "Replay"
    /\ rd[p] = Len(log)
    /\ pc' = [pc EXCEPT ![p] = "Ready"]
    /\ locks' = locks \ {p}
    /\ rd' = [rd EXCEPT ![p] = 0]
    /\ UNCHANGED <<chain, cred, bad, term, ls, log, logBy, state, pos,
                   last_block_date, logs, done, hist>>

\* ---- display_wallet_state_logs
\* dump_utxo: title, transaction id and index, date, block, value
dump_utxo(ptr, utxo, debit) ==
    [title |-> IF debit THEN "debit" ELSE "credit",
     id |-> extract_txin(utxo),
     date |-> latest_block_date(ptr),
     block |-> ptr.latest_known_hash,
     value |-> utxo.credited_value]

\* display_utxo: one line, date | id.index | credit | debit (one of the two
\* columns is blank)
display_utxo(ptr, utxo, debit) ==
    [date |-> latest_block_date(ptr),
     id |-> extract_txin(utxo),
     credit |-> IF debit THEN <<>> ELSE <<utxo.credited_value>>,
     debit |-> IF debit THEN <<utxo.credited_value>> ELSE <<>>]

\* what the loop body writes for one record
Displayed(record, pretty) ==
    CASE record.kind = "Checkpoint" ->
            IF pretty THEN <<>>
            ELSE <<[title |-> "checkpoint",
                    date |-> latest_block_date(record.ptr),
                    block |-> record.ptr.latest_known_hash]>>
      [] record.kind = "ReceivedFund" ->
            IF pretty THEN <<display_utxo(record.ptr, record.utxo, FALSE)>>
            ELSE <<dump_utxo(record.ptr, record.utxo, FALSE)>>
      [] record.kind = "SpentFund" ->
            IF pretty THEN <<display_utxo(record.ptr, record.utxo, TRUE)>>
            ELSE <<dump_utxo(record.ptr, record.utxo, TRUE)>>

\* the command is called with pretty or without
DisplayLock(p) ==
    /\ pc[p] = "Idle"
    /\ \E pretty \in BOOLEAN :
          lock_wallet_log(p, IF pretty THEN "DisplayPretty" ELSE "DisplayDump")

\* (variant of DisplayNext: a record that does not decode is filtered out)
DisplayNextSkipping(p) ==
    /\ pc[p] \in {"DisplayPretty", "DisplayDump"}
    /\ rd[p] < Len(log)
    /\ term' = [term EXCEPT ![p] =
                    IF rd[p] + 1 \in bad THEN @
                    ELSE @ \o Displayed(log[rd[p] + 1],
                                        pc[p] = "DisplayPretty")]
    /\ rd' = [rd EXCEPT ![p] = rd[p] + 1]
    /\ UNCHANGED <<chain, cred, bad, ls, log, logBy, locks, pc, state, pos,
                   last_block_date, logs, done, hist>>

DisplayNext(p) ==
    /\ pc[p] \in {"DisplayPretty", "DisplayDump"}
    /\ rd[p] < Len(log)
    /\ IF rd[p] + 1 \in bad
       THEN Ends(p, "Aborted")
       ELSE /\ term' = [term EXCEPT ![p] =
                           @ \o Displayed(log[rd[p] + 1],
                                          pc[p] = "DisplayPretty")]
            /\ rd' = [rd EXCEPT ![p] = rd[p] + 1]
            /\ UNCHANGED <<chain, cred, bad, ls, log, logBy, locks, pc, state, pos,
                           last_block_date, logs, done, hist>>

DisplayDone(p) ==
    /\ pc[p] \in {"DisplayPretty", "DisplayDump"}
    /\ rd[p] = Len(log)
    /\ pc' = [pc EXCEPT ![p] = "Displayed"]
    /\ locks' = locks \ {p}
    /\ rd' = [rd EXCEPT ![p] = 0]
    /\ UNCHANGED <<chain, cred, bad, term, ls, log, logBy, state, pos,
                   last_block_date, logs, done, hist>>

\* ---- load_bip44_lookup_structure, load_randomindex_lookup_structure
IMPOSSIBLE_HAPPENED == "The impossible happened"

\* Wallet::get_wallet_bip44 / get_wallet_rindex with the password typed
GetWallet == {"Ok", "InvalidPassword", "CannotRetrievePrivateKey", "Other"}

\* term.info, term.error: a line of text on the terminal
Message(text) == [title |-> "message", text |-> text]

\* (variant of load_lookup_structure: the arm of the invalid password takes
\* the unreadable key as well)
load_lookup_structure_merged(p, kind) ==
    /\ pc[p] = "Start"
    /\ LET asked == Append(term[p], Message("Enter the wallet password."))
       IN CASE cred[p] \in {"InvalidPassword", "CannotRetrievePrivateKey"} ->
                  /\ term' = [term EXCEPT ![p] =
                         Append(asked, Message("Invalid wallet spending password"))]
                  /\ pc' = [pc EXCEPT ![p] = "Exited"]
                  /\ UNCHANGED ls
            [] cred[p] = "Other" ->
                  /\ term' = [term EXCEPT ![p] =
                         Append(asked, Message(IMPOSSIBLE_HAPPENED))]
                  /\ pc' = [pc EXCEPT ![p] = "Aborted"]
                  /\ UNCHANGED ls
            [] cred[p] = "Ok" ->
                  /\ term' = [term EXCEPT ![p] = asked]
                  /\ pc' = [pc EXCEPT ![p] = "Idle"]
                  /\ ls' = [ls EXCEPT ![p] = [lookup |-> kind]]
    /\ UNCHANGED <<chain, cred, bad, rd, log, logBy, locks, state, pos,
                   last_block_date, logs, done, hist>>

\* the password is asked for and handed to get_wallet_*: exit(1) after
\* "Invalid wallet spending password", exit(1) after "Cannot retrieve the
\* private key", a panic on any other error, the lookup structure on success
load_lookup_structure(p, kind) ==
    /\ pc[p] = "Start"
    /\ LET asked == Append(term[p], Message("Enter the wallet password."))
       IN CASE cred[p] = "InvalidPassword" ->
                  /\ term' = [term EXCEPT ![p] =
                         Append(asked, Message("Invalid wallet spending password"))]
                  /\ pc' = [pc EXCEPT ![p] = "Exited"]
                  /\ UNCHANGED ls
            [] cred[p] = "CannotRetrievePrivateKey" ->
                  /\ term' = [term EXCEPT ![p] =
                         asked \o
                         <<Message("Cannot retrieve the private key of the wallet"),
                           Message("The encrypted wallet password is in an invalid format")>>]
                  /\ pc' = [pc EXCEPT ![p] = "Exited"]
                  /\ UNCHANGED ls
            [] cred[p] = "Other" ->
                  /\ term' = [term EXCEPT ![p] =
                         Append(asked, Message(IMPOSSIBLE_HAPPENED))]
                  /\ pc' = [pc EXCEPT ![p] = "Aborted"]
                  /\ UNCHANGED ls
            [] cred[p] = "Ok" ->
                  /\ term' = [term EXCEPT ![p] = asked]
                  /\ pc' = [pc EXCEPT ![p] = "Idle"]
                  /\ ls' = [ls EXCEPT ![p] = [lookup |-> kind]]
    /\ UNCHANGED <<chain, cred, bad, rd, log, logBy, locks, state, pos,
                   last_block_date, logs, done, hist>>

load_bip44_lookup_structure(p) == load_lookup_structure(p, "bip44")

load_randomindex_lookup_structure(p) == load_lookup_structure(p, "rindex")

\* ---- update_wallet_state_with_utxos
SyncStart(p) ==
    /\ pc[p] = "Ready"
    /\ LET from_ptr == state[p].ptr
           from == from_ptr.latest_known_hash
           from_date == latest_block_date(from_ptr)
           rest == iter_to_tip(chain, from)
       IN /\ last_block_date' = [last_block_date EXCEPT ![p] = from_date]
          /\ pos' = [pos EXCEPT ![p] = Len(chain) - Cardinality(rest)]
    /\ pc' = [pc EXCEPT ![p] = "Iter"]
    /\ UNCHANGED <<chain, cli, log, logBy, locks, state, logs, done, hist>>

\* (variant of IterNext: the iteration stops one transaction before the tip)
IterNextEarly(p) ==
    /\ pc[p] = "Iter"
    /\ IF pos[p] + 1 >= Len(chain)
       THEN /\ pc' = [pc EXCEPT ![p] = "Completed"]
            /\ UNCHANGED <<pos, last_block_date, hist>>
       ELSE LET ptr == PtrOf(chain[pos[p] + 1])
            IN /\ pos' = [pos EXCEPT ![p] = pos[p] + 1]
               /\ IF CheckpointDue(last_block_date[p], ptr)
                  THEN /\ pc' = [pc EXCEPT ![p] = "CkptLock"]
                       /\ UNCHANGED last_block_date
                  ELSE /\ pc' = [pc EXCEPT ![p] = "Txins"]
                       /\ last_block_date' =
                              [last_block_date EXCEPT ![p] =
                                  IF ptr.latest_addr # None
                                  THEN ptr.latest_addr ELSE @]
               /\ UNCHANGED hist
    /\ UNCHANGED <<chain, cli, log, logBy, locks, state, logs, done>>

IterNext(p) ==
    /\ pc[p] = "Iter"
    /\ IF pos[p] >= Len(chain)
       THEN /\ pc' = [pc EXCEPT ![p] = "Completed"]
            /\ UNCHANGED <<pos, last_block_date, hist>>
       ELSE LET ptr == PtrOf(chain[pos[p] + 1])
            IN /\ pos' = [pos EXCEPT ![p] = pos[p] + 1]
               /\ IF CheckpointDue(last_block_date[p], ptr)
                  THEN /\ pc' = [pc EXCEPT ![p] = "CkptLock"]
                       /\ UNCHANGED last_block_date
                  ELSE /\ pc' = [pc EXCEPT ![p] = "Txins"]
                       /\ last_block_date' =
                              [last_block_date EXCEPT ![p] =
                                  IF ptr.latest_addr # None
                                  THEN ptr.latest_addr ELSE @]
               /\ UNCHANGED hist
    /\ UNCHANGED <<chain, cli, log, logBy, locks, state, logs, done>>

CkptLock(p) ==
    /\ pc[p] = "CkptLock"
    /\ lock_wallet_log(p, "CkptAppend")

CkptAppend(p) ==
    /\ pc[p] = "CkptAppend"
    /\ LET ptr == PtrOf(chain[pos[p]])
       IN \E ok \in BOOLEAN :
            IF ok
            THEN /\ WriterAppend(p, Checkpoint(ptr))
                 /\ locks' = locks \ {p}
                 /\ last_block_date' =
                        [last_block_date EXCEPT ![p] = ptr.latest_addr]
                 /\ pc' = [pc EXCEPT ![p] = "Txins"]
                 /\ UNCHANGED <<chain, cli, state, pos, logs, done, hist>>
            ELSE Ends(p, "Aborted")

ForwardTxins(p) ==
    /\ pc[p] = "Txins"
    /\ LET tx == chain[pos[p]]
           r == forward_with_txins(state[p], TxinItems(PtrOf(tx), tx))
       IN IF r.ok
          THEN /\ state' = [state EXCEPT ![p] = r.state]
               /\ logs' = [logs EXCEPT ![p] = r.logs]
               /\ pc' = [pc EXCEPT ![p] = "InsLock"]
               /\ UNCHANGED <<chain, cli, log, logBy, locks, pos, last_block_date,
                              done, hist>>
          ELSE Ends(p, "Aborted")

InsLock(p) ==
    /\ pc[p] = "InsLock"
    /\ lock_wallet_log(p, "InsAppend")

\* (variant of AppendNext: only the first record of a batch is appended)
AppendNextFirstOnly(p) ==
    /\ logs[p] # <<>>
    /\ \E ok \in BOOLEAN :
         IF ok
         THEN /\ WriterAppend(p, Head(logs[p]))
              /\ logs' = [logs EXCEPT ![p] = <<>>]
              /\ UNCHANGED <<chain, cli, locks, pc, state, pos, last_block_date,
                             done, hist>>
         ELSE Ends(p, "Aborted")

\* for log in logs { writer.append(&log).unwrap(); }
AppendNext(p) ==
    /\ logs[p] # <<>>
    /\ \E ok \in BOOLEAN :
         IF ok
         THEN /\ WriterAppend(p, Head(logs[p]))
              /\ logs' = [logs EXCEPT ![p] = Tail(logs[p])]
              /\ UNCHANGED <<chain, cli, locks, pc, state, pos, last_block_date,
                             done, hist>>
         ELSE Ends(p, "Aborted")

InsAppend(p) ==
    /\ pc[p] = "InsAppend"
    /\ AppendNext(p)

\* (variant of InsClose: the writer outlives its block, the lock is kept)
InsCloseKeeping(p) ==
    /\ pc[p] = "InsAppend"
    /\ logs[p] = <<>>
    /\ pc' = [pc EXCEPT ![p] = "Utxos"]
    /\ UNCHANGED <<chain, cli, log, logBy, state, pos, last_block_date, logs,
                   done, hist, locks>>

\* the writer goes out of scope: the lock is released
InsClose(p) ==
    /\ pc[p] = "InsAppend"
    /\ logs[p] = <<>>
    /\ locks' = locks \ {p}
    /\ pc' = [pc EXCEPT ![p] = "Utxos"]
    /\ UNCHANGED <<chain, cli, log, logBy, state, pos, last_block_date, logs,
                   done, hist>>

ForwardUtxos(p) ==
    /\ pc[p] = "Utxos"
    /\ LET tx == chain[pos[p]]
           r == forward_with_utxos(state[p], UtxoItems(PtrOf(tx), pos[p], tx))
       IN IF r.ok
          THEN /\ state' = [state EXCEPT ![p] = r.state]
               /\ logs' = [logs EXCEPT ![p] = r.logs]
               /\ pc' = [pc EXCEPT ![p] = "OutsLock"]
               /\ UNCHANGED <<chain, cli, log, logBy, locks, pos, last_block_date,
                              done, hist>>
          ELSE Ends(p, "Aborted")

OutsLock(p) ==
    /\ pc[p] = "OutsLock"
    /\ lock_wallet_log(p, "OutsAppend")

\* (variant of OutsAppend: the records of the batch are taken from the back)
OutsAppendFromBack(p) ==
    /\ pc[p] = "OutsAppend"
    /\ logs[p] # <<>>
    /\ \E ok \in BOOLEAN :
         IF ok
         THEN /\ WriterAppend(p, logs[p][Len(logs[p])])
              /\ logs' = [logs EXCEPT ![p] = SubSeq(@, 1, Len(@) - 1)]
              /\ UNCHANGED <<chain, cli, locks, pc, state, pos,
                             last_block_date, done, hist>>
         ELSE Ends(p, "Aborted")

OutsAppend(p) ==
    /\ pc[p] = "OutsAppend"
    /\ AppendNext(p)

OutsClose(p) ==
    /\ pc[p] = "OutsAppend"
    /\ logs[p] = <<>>
    /\ locks' = locks \ {p}
    /\ pc' = [pc EXCEPT ![p] = "Iter"]
    /\ done' = [done EXCEPT ![pos[p]] = IF @ = 0 THEN 1 ELSE 2]
    /\ UNCHANGED <<chain, cli, log, logBy, state, pos, last_block_date, logs, hist>>

\* ---- the environment
\* the process is terminated at any point of a command
Crash(p) ==
    /\ pc[p] \notin {"Start", "Idle"} \cup Terminal
    /\ Ends(p, "Crashed")

\* the next launch of a wallet command, with a new state
Restart(p) ==
    /\ pc[p] \in Terminal
    /\ pc' = [pc EXCEPT ![p] = "Start"]
    /\ state' = [state EXCEPT ![p] = NewState]
    /\ term' = [term EXCEPT ![p] = <<>>]
    /\ ls' = [ls EXCEPT ![p] = None]
    /\ \E r \in GetWallet : cred' = [cred EXCEPT ![p] = r]
    /\ hist' = [hist EXCEPT !.completed = @ \/ pc[p] = "Completed"]
    /\ UNCHANGED <<chain, bad, rd, log, logBy, locks, pos, last_block_date,
                   logs, done>>

\* a record of the log at rest is damaged in the store
Corrupt ==
    /\ \A p \in Procs : pc[p] \in {"Start", "Idle"} \cup Terminal
    /\ \E i \in DOMAIN log \ bad : bad' = bad \cup {i}
    /\ UNCHANGED <<chain, cred, term, rd, ls, log, logBy, locks, pc, state,
                   pos, last_block_date, logs, done, hist>>

Step(p) ==
    \/ LogsLock(p)
    \/ UpdateWithLogs(p)
    \/ UpdateDone(p)
    \/ DisplayLock(p)
    \/ DisplayNext(p)
    \/ DisplayDone(p)
    \/ SyncStart(p)
    \/ IterNext(p)
    \/ CkptLock(p)
    \/ CkptAppend(p)
    \/ ForwardTxins(p)
    \/ InsLock(p)
    \/ InsAppend(p)
    \/ InsClose(p)
    \/ ForwardUtxos(p)
    \/ OutsLock(p)
    \/ OutsAppend(p)
    \/ OutsClose(p)

\* one wallet command at a time, launched again after it ended or was killed
Next ==
    \/ Step("p1")
    \/ Crash("p1")
    \/ Restart("p1")
    \/ load_bip44_lookup_structure("p1")
    \/ load_randomindex_lookup_structure("p1")

Spec == Init /\ [][Next]_vars

\* two wallet commands launched on the same wallet, each run once, on a chain
\* of single-output transactions
ConcChains == { c \in Chains : \A i \in DOMAIN c : Len(c[i].outs) = 1 }

InitConc ==
    /\ Init
    /\ chain \in ConcChains

NextConc == \E p \in Procs : Step(p)

SpecConc == InitConc /\ [][NextConc]_vars

\* the same, with every launched command running on: a process that can
\* take a step is eventually scheduled
SpecConcFair == SpecConc /\ \A p \in Procs : WF_vars(Step(p))

\* one wallet command at a time on a log whose records may be damaged
\* between two commands
NextRead ==
    \/ Step("p1")
    \/ Restart("p1")
    \/ load_bip44_lookup_structure("p1")
    \/ load_randomindex_lookup_structure("p1")
    \/ Corrupt

SpecRead == InitConc /\ [][NextRead]_vars

\* ------------------------------------------------------------ properties
Range(f) == { f[i] : i \in DOMAIN f }

\* the state one uninterrupted pass over the chain from position i leaves
RECURSIVE SyncFrom(_, _, _)
SyncFrom(c, st, i) ==
    IF i > Len(c) THEN st
    ELSE LET a == forward_with_txins(st, TxinItems(PtrOf(c[i]), c[i]))
             b == forward_with_utxos(a.state, UtxoItems(PtrOf(c[i]), i, c[i]))
         IN SyncFrom(c, b.state, i + 1)

\* the process is inside update_wallet_state_with_utxos
InSync(p) ==
    pc[p] \in {"Iter", "CkptLock", "CkptAppend", "Txins", "InsLock",
               "InsAppend", "Utxos", "OutsLock", "OutsAppend"}

\* C1: replay equivalence.  When a sync has completed, a new state built by
\* update_with_logs from the log has the live set and the cursor of the
\* state that was synchronised.
C1_ReplayEquivalence ==
    \A p \in Procs :
        pc[p] = "Completed" =>
            LET r == update_with_logs(NewState, log)
            IN /\ r.ok
               /\ r.state.utxos = state[p].utxos
               /\ r.state.ptr = state[p].ptr

\* C2: crash-resume.  When sessions were cut short and the next one, resumed
\* from the replayed log, runs to completion, every transaction of the chain
\* has been processed exactly once and the live set is that of one
\* uninterrupted sync.
C2_CrashResume ==
    (pc["p1"] = "Completed" /\ hist.cut /\ ~hist.completed) =>
        /\ \A i \in DOMAIN chain : done[i] = 1
        /\ state["p1"].utxos = SyncFrom(chain, NewState, 1).utxos

\* C3: at most one synchronizer.  No process appends a record while another
\* process is inside a sync session that has already appended records.
C3_OneSynchronizer ==
    [][\A p \in Procs :
          (Len(log') > Len(log) /\ logBy'[Len(log')] = p) =>
              \A q \in Procs \ {p} : ~(InSync(q) /\ q \in Range(logBy))]_vars

\* the process holds an open LogWriter or LogReader
HasWriter(p) ==
    pc[p] \in {"Replay", "DisplayPretty", "DisplayDump", "CkptAppend",
               "InsAppend", "OutsAppend"}

\* the process is about to call lock_wallet_log
AtLock(p) == pc[p] \in {"Idle", "CkptLock", "InsLock", "OutsLock"}

\* C4: lock exclusivity.  At most one LogLock exists, and a process has an
\* open writer or reader only while it holds that lock: no second lock or
\* writer is ever handed out while a holder is active.
C4_LockExclusivity ==
    /\ Cardinality(locks) <= 1
    /\ \A p \in Procs : HasWriter(p) <=> p \in locks

\* a lock attempt was refused while the other process held the lock
C4_Witness ==
    \E p, q \in Procs :
        /\ p # q
        /\ locks = {p}
        /\ HasWriter(p)
        /\ pc[q] = "LockFailed"

\* C5: lock contention fails fast.  A process that calls lock_wallet_log
\* while another one holds the lock exits in that step (LockFailed); once
\* it has exited it takes no lock, appends nothing and goes nowhere else.
C5_FailFast ==
    [][\A p \in Procs :
          /\ (AtLock(p) /\ pc'[p] # pc[p] /\ locks \ {p} # {})
                 => pc'[p] = "LockFailed"
          /\ pc[p] = "LockFailed"
                 => /\ pc'[p] = "LockFailed"
                    /\ p \notin locks'
                    /\ Len(log') > Len(log) => logBy'[Len(log')] # p]_vars

\* a session that had already appended records failed on a later lock
C5_Witness ==
    \E p \in Procs : pc[p] = "LockFailed" /\ p \in Range(logBy)

\* ---- C6: the two-block scenario
IsScenario(c) ==
    /\ Len(c) = 2
    /\ c[1].blk = 1 /\ c[2].blk = 2
    /\ c[1].ins = {} /\ c[1].outs = <<[address |-> "A", value |-> 100]>>
    /\ c[2].ins = {TxIn(1, 0)} /\ c[2].outs = <<[address |-> "B", value |-> 100]>>

\* the first sync of the wallet has run from the genesis cursor to the end
FirstSyncDone == pc["p1"] = "Completed" /\ ~hist.cut /\ ~hist.completed

IsCheckpoint(r) == r.kind = "Checkpoint"
IsFund(r) == r.kind # "Checkpoint"

ScenarioFunds ==
    LET u == UTxO(1, 0, "A", 100)
    IN <<ReceivedFund(PtrOf(chain[1]), u), SpentFund(PtrOf(chain[2]), u)>>

\* C6 as claimed: live set empty, ReceivedFund then SpentFund, and at most one
\* Checkpoint, present only if the two blocks are in different epochs.
C6_ScenarioAsClaimed ==
    (IsScenario(chain) /\ FirstSyncDone) =>
        /\ state["p1"].utxos = {}
        /\ SelectSeq(log, IsFund) = ScenarioFunds
        /\ Len(SelectSeq(log, IsCheckpoint)) <= 1
        /\ Len(SelectSeq(log, IsCheckpoint)) = 1
               => chain[1].epoch # chain[2].epoch

\* C6 (amended): live set empty, and the log is exactly Checkpoint(ptr1) if
\* block 1 is not in epoch 0, ReceivedFund(ptr1, utxo 100), Checkpoint(ptr2)
\* if block 2 is in another epoch than block 1, SpentFund(ptr2, utxo 100).
C6_Scenario ==
    (IsScenario(chain) /\ FirstSyncDone) =>
        /\ state["p1"].utxos = {}
        /\ log = (IF chain[1].epoch # 0
                  THEN <<Checkpoint(PtrOf(chain[1]))>> ELSE <<>>)
                 \o <<ScenarioFunds[1]>>
                 \o (IF chain[2].epoch # chain[1].epoch
                     THEN <<Checkpoint(PtrOf(chain[2]))>> ELSE <<>>)
                 \o <<ScenarioFunds[2]>>

\* the scenario has run with both blocks in the same epoch, which is not 0
C6_Witness ==
    /\ IsScenario(chain) /\ FirstSyncDone
    /\ chain[1].epoch = chain[2].epoch
    /\ Len(SelectSeq(log, IsCheckpoint)) = 1

\* C7: checkpoint cadence.  No epoch has more than one Checkpoint record in
\* the log, and the Checkpoint of a block comes before every ReceivedFund and
\* SpentFund record of that block.
C7_CheckpointCadence ==
    \A i, j \in DOMAIN log :
        /\ (i < j /\ IsCheckpoint(log[i]) /\ IsCheckpoint(log[j]))
               => log[i].ptr.latest_addr.epoch # log[j].ptr.latest_addr.epoch
        /\ (IsCheckpoint(log[i]) /\ IsFund(log[j]) /\ log[i].ptr = log[j].ptr)
               => i < j

\* C8: checkpoint monotonicity.  The block dates of successive Checkpoint
\* records of the log are non-decreasing.
C8_CheckpointMonotonicity ==
    \A i, j \in DOMAIN log :
        (i < j /\ IsCheckpoint(log[i]) /\ IsCheckpoint(log[j]))
            => DateLeq(latest_block_date(log[i].ptr), latest_block_date(log[j].ptr))

\* C9: UTXO identity uniqueness.  A live set never holds two entries with the
\* same (transaction_id, index_in_transaction), and every entry is the output
\* of its transaction at its index, counted from 0 in output order.
C9_UtxoIdentity ==
    \A p \in Procs :
        /\ \A u, v \in state[p].utxos :
               extract_txin(u) = extract_txin(v) => u = v
        /\ \A u \in state[p].utxos :
               /\ u.transaction_id \in DOMAIN chain
               /\ u.index_in_transaction + 1
                      \in DOMAIN chain[u.transaction_id].outs
               /\ LET out == chain[u.transaction_id]
                                 .outs[u.index_in_transaction + 1]
                  IN /\ u.credited_address = out.address
                     /\ u.credited_value = out.value

\* two outputs of one transaction are live at the same time
C9_Witness ==
    \E p \in Procs : \E u, v \in state[p].utxos :
        /\ u.transaction_id = v.transaction_id
        /\ u.index_in_transaction = 0
        /\ v.index_in_transaction = 1

\* ---- C10: conservation
RECURSIVE SumLive(_)
SumLive(utxos) ==
    IF utxos = {} THEN 0
    ELSE LET u == CHOOSE x \in utxos : TRUE
         IN u.credited_value + SumLive(utxos \ {u})

RECURSIVE SumLog(_, _)
SumLog(records, kind) ==
    IF records = <<>> THEN 0
    ELSE (IF records[1].kind = kind THEN records[1].utxo.credited_value ELSE 0)
         + SumLog(Tail(records), kind)

OnlyOwned(c) ==
    \A i \in DOMAIN c : \A k \in DOMAIN c[i].outs :
        c[i].outs[k].address \in OwnedAddr

\* C10: conservation.  After a sync over a chain that credits only owned
\* addresses, the values of the ReceivedFund records of the log minus the
\* values of its SpentFund records equal the values of the live set.
C10_Conservation ==
    (pc["p1"] = "Completed" /\ OnlyOwned(chain)) =>
        SumLog(log, "ReceivedFund") - SumLog(log, "SpentFund")
            = SumLive(state["p1"].utxos)

\* a sync over owned addresses only has ended with funds spent and funds left
C10_Witness ==
    /\ pc["p1"] = "Completed" /\ OnlyOwned(chain)
    /\ SumLog(log, "SpentFund") > 0
    /\ SumLive(state["p1"].utxos) > 0

\* ---- C11: processing order
\* the transaction a fund record is about: the one that created the output
\* (ReceivedFund), the one that spends it (SpentFund)
TxOf(r) ==
    IF r.kind = "ReceivedFund" THEN r.utxo.transaction_id
    ELSE CHOOSE t \in DOMAIN chain : extract_txin(r.utxo) \in chain[t].ins

\* C11: processing order.  The records a process appends are in blockchain
\* order, oldest first; the SpentFund records of a transaction come before
\* its ReceivedFund records; every fund record carries the StatePtr of its
\* transaction.
C11_ProcessingOrder ==
    /\ \A i \in DOMAIN log :
           IsFund(log[i]) =>
               /\ log[i].kind = "SpentFund" =>
                      \E t \in DOMAIN chain :
                          extract_txin(log[i].utxo) \in chain[t].ins
               /\ log[i].ptr = PtrOf(chain[TxOf(log[i])])
    /\ \A i, j \in DOMAIN log :
           (i < j /\ logBy[i] = logBy[j]) =>
               /\ DateLeq(latest_block_date(log[i].ptr),
                          latest_block_date(log[j].ptr))
               /\ (IsFund(log[i]) /\ IsFund(log[j])) =>
                      /\ TxOf(log[i]) <= TxOf(log[j])
                      /\ (TxOf(log[i]) = TxOf(log[j])
                              /\ log[i].kind = "ReceivedFund")
                             => log[j].kind = "ReceivedFund"

\* a transaction that spends owned funds and credits the wallet has both
\* its records in the log, behind the records of an earlier transaction
C11_Witness ==
    \E i, j, k \in DOMAIN log :
        /\ i < j /\ j < k
        /\ log[i].kind = "ReceivedFund"
        /\ log[j].kind = "SpentFund"
        /\ log[k].kind = "ReceivedFund"
        /\ TxOf(log[j]) = TxOf(log[k])
        /\ TxOf(log[i]) < TxOf(log[j])

\* ---- C12: decode failure
\* the process has an open LogReader
Reading(p) == pc[p] \in {"Replay", "DisplayPretty", "DisplayDump"}

\* C12: a decode failure is fatal for the whole read.  A reader whose next
\* record does not decode ends the command with a failure in that step,
\* without applying or displaying anything more; records are consumed one by
\* one, none is passed over, and a read ends well only on a log without a
\* damaged record.
C12_DecodeFailureFatal ==
    [][\A p \in Procs :
          Reading(p) =>
              /\ (rd[p] < Len(log) /\ rd[p] + 1 \in bad
                     /\ (pc'[p] # pc[p] \/ rd'[p] # rd[p]))
                    => /\ pc'[p] = "Aborted"
                       /\ term'[p] = term[p]
                       /\ state'[p] = NewState
              /\ (rd'[p] # rd[p] /\ pc'[p] = pc[p])
                    => /\ rd'[p] = rd[p] + 1
                       /\ \A i \in 1..rd'[p] : i \notin bad
              /\ ((state'[p] # state[p] /\ pc'[p] = pc[p])
                     \/ term'[p] # term[p])
                    => rd[p] + 1 \notin bad
              /\ pc'[p] \in {"Ready", "Displayed"}
                    => bad \cap DOMAIN log = {}]_vars

\* a display has written the lines of at least two records and then ended
\* with a failure on a damaged record behind them
C12_Witness ==
    /\ pc["p1"] = "Aborted"
    /\ Len(term["p1"]) >= 3
    /\ bad # {}
    /\ \A i \in bad : i > 2

\* ---- C13: the driver state machine
SyncTerminal == {"Completed", "LockFailed", "Aborted"}

\* C13: driver state machine.  Every sync session ends in one of Completed,
\* LockFailed and Aborted, and stays there: Completed only from the end of
\* the iteration, after the last transaction of the chain; LockFailed
\* exactly when lock_wallet_log is called on a locked log; Aborted on a
\* failure that is not lock contention.
C13_DriverStateMachine ==
    /\ \A p \in Procs : [](pc[p] = "Ready" => <>(pc[p] \in SyncTerminal))
    /\ [][\A p \in Procs :
            /\ pc[p] \in Terminal => pc'[p] = pc[p]
            /\ ((pc[p] = "Ready" \/ InSync(p)) /\ pc'[p] # pc[p])
                  => /\ pc'[p] \in Terminal => pc'[p] \in SyncTerminal
                     /\ pc'[p] = "Completed"
                            => pc[p] = "Iter" /\ pos[p] = Len(chain)
                     /\ pc'[p] = "LockFailed"
                            <=> (AtLock(p) /\ locks # {})
                     /\ pc'[p] = "Aborted"
                            => (AtLock(p) => locks = {})]_vars

\* of two sessions on a chain of two blocks, one has run to the end and the
\* other one, after its first appends, has found the log locked
C13_Witness ==
    \E p, q \in Procs :
        /\ Len(chain) = 2
        /\ pc[p] = "Completed"
        /\ pc[q] = "LockFailed"
        /\ q \in Range(logBy)

\* C14: lock release on every exit path.  A process holds the lock of the
\* log only while its writer or reader is open: between the batches of a
\* sync, and after a sync, a replay or a display has ended, well or with a
\* failure, the log is not locked by it.
C14_LockReleased ==
    \A p \in Procs : ~HasWriter(p) => p \notin locks

\* commands have ended with a failure while they held the lock, the last
\* one on a damaged record, and the log is free
C14_Witness ==
    /\ hist.unwound
    /\ pc["p1"] = "Aborted"
    /\ bad # {}
    /\ locks = {}

\* C15: the cursor after a sync.  When the first sync of the wallet has run
\* to the end of the chain, state.ptr() is the StatePtr of the last
\* transaction of the chain, whether or not that transaction had an owned
\* input or output.
C15_CursorAtLastTransaction ==
    FirstSyncDone => state["p1"].ptr = PtrOf(chain[Len(chain)])

\* ---- C16: cursor monotonicity
\* the block dates of the StatePtr values of successive log records
LogDatesAscend ==
    \A i, j \in DOMAIN log :
        i < j => DateLeq(latest_block_date(log[i].ptr),
                         latest_block_date(log[j].ptr))

\* the cursor of a state never moves back (a state that ends with its
\* process is not compared with the new state of the next launch)
CursorAscends ==
    \A p \in Procs :
        (pc'[p] \notin Terminal \cup {"Start"} /\ pc[p] \notin Terminal \cup {"Start"})
            => DateLeq(latest_block_date(state[p].ptr),
                       latest_block_date(state'[p].ptr))

\* C16: cursor monotonicity.  Over the sessions and replays of one wallet
\* the block date of state.ptr() never decreases, and the block dates of the
\* StatePtr values of successive log records never decrease.
C16_CursorMonotonicity == []LogDatesAscend /\ [][CursorAscends]_vars

\* ---- C17: credential failure
\* what the terminal shows after the prompt, by the answer of get_wallet_*
Shown(answer) ==
    CASE answer = "InvalidPassword" ->
            <<Message("Invalid wallet spending password")>>
      [] answer = "CannotRetrievePrivateKey" ->
            <<Message("Cannot retrieve the private key of the wallet"),
              Message("The encrypted wallet password is in an invalid format")>>
      [] answer = "Other" -> <<Message(IMPOSSIBLE_HAPPENED)>>
      [] answer = "Ok" -> <<>>

\* C17: credential failure.  A wrong password and an unreadable stored key
\* both end the process with exit(1), each after an error message of its
\* own; any other error ends it with a panic; in none of the three cases a
\* lookup structure exists, and a lookup structure exists only after
\* get_wallet_* has succeeded.
C17_CredentialFailure ==
    /\ Shown("InvalidPassword") # Shown("CannotRetrievePrivateKey")
    /\ \A p \in Procs :
        /\ ls[p] # None => cred[p] = "Ok"
        /\ (pc[p] # "Start" /\ cred[p] # "Ok") =>
               /\ ls[p] = None
               /\ term[p] = <<Message("Enter the wallet password.")>>
                                \o Shown(cred[p])
               /\ cred[p] \in {"InvalidPassword", "CannotRetrievePrivateKey"}
                      => pc[p] = "Exited"
               /\ cred[p] = "Other" => pc[p] = "Aborted"
        /\ pc[p] = "Exited" => cred[p] # "Ok"

\* a launch has ended on an unreadable stored key
C17_Witness ==
    /\ pc["p1"] = "Exited"
    /\ cred["p1"] = "CannotRetrievePrivateKey"
    /\ Len(term["p1"]) = 3

\* ---- C18: per-record durability
\* the records one uninterrupted pass over the chain from position i appends
RECURSIVE SyncLog(_, _, _, _)
SyncLog(c, st, i, last) ==
    IF i > Len(c) THEN <<>>
    ELSE LET ptr == PtrOf(c[i])
             a == forward_with_txins(st, TxinItems(ptr, c[i]))
             b == forward_with_utxos(a.state, UtxoItems(ptr, i, c[i]))
         IN (IF CheckpointDue(last, ptr) THEN <<Checkpoint(ptr)>> ELSE <<>>)
            \o a.logs \o b.logs
            \o SyncLog(c, b.state, i + 1, ptr.latest_addr)

IsPrefix(s, t) == Len(s) <= Len(t) /\ s = SubSeq(t, 1, Len(s))

\* C18: per-record durability.  At every point of the first sync of the
\* wallet, hence wherever it is killed, the log is a prefix, in whole
\* records and in order, of the records the uninterrupted sync writes; and
\* a replay that has gone through takes every record of the log as
\* committed: its state is the replay of the whole log.
C18_DurablePrefix ==
    /\ (~hist.cut /\ ~hist.completed)
           => IsPrefix(log, SyncLog(chain, NewState, 1, Genesis(0)))
    /\ \A p \in Procs :
           pc[p] = "Ready" =>
               LET r == update_with_logs(NewState, log)
               IN r.ok /\ state[p] = r.state

\* the first sync was killed inside a batch of two records, after the
\* first of them, and the next launch has replayed the log
C18_Witness ==
    LET full == SyncLog(chain, NewState, 1, Genesis(0))
    IN /\ pc["p1"] = "Ready"
       /\ hist.cut /\ ~hist.completed
       /\ log # <<>>
       /\ IsPrefix(log, full)
       /\ Len(log) < Len(full)
       /\ full[Len(log) + 1].kind = log[Len(log)].kind
       /\ full[Len(log) + 1].ptr = log[Len(log)].ptr

\* C19: no self-contention.  A command that runs alone reaches every call
\* of lock_wallet_log without a lock of its own, so it never ends on an
\* already locked log, and there is never more than one lock.
C19_NoSelfContention ==
    /\ pc["p1"] # "LockFailed"
    /\ AtLock("p1") => locks = {}
    /\ Cardinality(locks) <= 1

\* a sync that ran alone has taken the lock for a checkpoint, for inputs
\* and for outputs, and has run to the end
C19_Witness ==
    /\ pc["p1"] = "Completed"
    /\ \E i, j, k \in DOMAIN log :
           /\ log[i].kind = "Checkpoint"
           /\ log[j].kind = "SpentFund"
           /\ log[k].kind = "ReceivedFund"
           /\ log[j].ptr = log[k].ptr
           /\ log[i].ptr = log[j].ptr

\* C20: replay under one lock.  A replay and a display hold the lock of the
\* log, and they alone, from the opening of the reader to its last record:
\* while a reader is open no record is appended, so what it reads is the
\* log as it was when the lock was taken.
C20_ReplayUnderOneLock ==
    /\ [](\A p \in Procs : Reading(p) => locks = {p})
    /\ [][\A p \in Procs :
            Reading(p) => /\ log' = log
                          /\ pc'[p] = pc[p] => p \in locks']_vars

\* while a replay is in the middle of the log, a session that had appended
\* records has found the log locked
C20_Witness ==
    \E p, q \in Procs :
        /\ pc[p] = "Replay"
        /\ rd[p] >= 1 /\ rd[p] < Len(log)
        /\ pc[q] = "LockFailed"
        /\ q \in Range(logBy)

====
